---------------------------- MODULE Spec2Model ----------------------------
(***************************************************************************)
(* azqr: resource scanners, rule tables and the scan run that drives them. *)
(*                                                                         *)
(* Strings on which the code computes (ToLower, Contains, HasPrefix) are   *)
(* sequences of one-character strings, and so are the details the rules    *)
(* return; strings that are only stored and compared (rule ids, map keys,  *)
(* resource types, locations) are TLA+ strings.  A Go pointer is Nil or    *)
(* Ptr(v); a nil dereference is the outcome "panic", log.Fatal is the      *)
(* outcome "fatal".                                                        *)
(***************************************************************************)
EXTENDS Integers, Sequences, FiniteSets, Bags, TLC

(***************************************************************************)
(* Bounds of the model.                                                    *)
(***************************************************************************)
\* pages the Event Hub listing of a resource group returns (one namespace each)
MaxPages == 2
\* agent pool profiles of a managed cluster
MaxProfiles == 2
\* length of the resource ids the diagnostics lookup is tried on
MaxIdLen == 2
\* keys by which the start of a range over a rule table is moved from the
\* first declared rule
MaxShift == 1

(***************************************************************************)
(* Go values.                                                              *)
(***************************************************************************)
Nil == <<>>

Ptr(v) == <<v>>

Deref(p) == p[1]

\* len() of a slice that may be nil
SliceLen(s) == IF s = Nil THEN 0 ELSE Len(Deref(s))

Str_Free == <<"F", "r", "e", "e">>

Str_Standard == <<"S", "t", "a", "n", "d", "a", "r", "d">>

Str_Premium == <<"P", "r", "e", "m", "i", "u", "m">>

Str_Basic == <<"B", "a", "s", "i", "c">>

Str_9995 == <<"9", "9", ".", "9", "5", "%">>

Str_9999 == <<"9", "9", ".", "9", "9", "%">>

Str_999 == <<"9", "9", ".", "9", "%">>

Str_None == <<"N", "o", "n", "e">>

Str_true == <<"t", "r", "u", "e">>

Str_false == <<"f", "a", "l", "s", "e">>

Str_empty == <<>>

Str_aks == <<"a", "k", "s">>

Str_evh == <<"e", "v", "h">>

Str_dbw == <<"d", "b", "w">>

\* strings.Contains
Contains(s, sub) ==
    \E i \in 1..(Len(s) + 1) :
        /\ i + Len(sub) - 1 <= Len(s)
        /\ SubSeq(s, i, i + Len(sub) - 1) = sub

\* strings.HasPrefix
HasPrefix(s, p) == Len(s) >= Len(p) /\ SubSeq(s, 1, Len(p)) = p

LowerChar(c) ==
    CASE c = "A" -> "a"
      [] c = "B" -> "b"
      [] c = "E" -> "e"
      [] c = "V" -> "v"
      [] c = "H" -> "h"
      [] c = "D" -> "d"
      [] c = "W" -> "w"
      [] OTHER -> c

\* strings.ToLower
ToLower(s) == [i \in 1..Len(s) |-> LowerChar(s[i])]

(***************************************************************************)
(* What a rule's Eval does: it returns (broken, detail), or the process    *)
(* stops in it.                                                            *)
(***************************************************************************)
Ok(broken, detail) == [outcome |-> "ok", broken |-> broken, detail |-> detail]

Panic == [outcome |-> "panic", broken |-> FALSE, detail |-> Str_empty]

Fatal == [outcome |-> "fatal", broken |-> FALSE, detail |-> Str_empty]

\* strconv.FormatBool
FormatBool(b) == IF b THEN Str_true ELSE Str_false

(***************************************************************************)
(* The diagnostics-settings index.  Build records the lower-cased id of    *)
(* every resource that owns a setting; the lookup lower-cases the id it is *)
(* given.  HasDiagnostics is the scanner-side lookup, which may fail.      *)
(***************************************************************************)
BuildIndex(settingIds) == {ToLower(i) : i \in settingIds}

Lookup(index, resourceId) == ToLower(resourceId) \in index

HasDiagnostics(ds, resourceId) ==
    IF ds.err THEN [has |-> FALSE, err |-> TRUE]
    ELSE [has |-> Lookup(ds.index, resourceId), err |-> FALSE]


(***************************************************************************)
(* Event Hub namespace rules (EventHubScanner.GetRules), in the order the  *)
(* map literal declares them.                                              *)
(***************************************************************************)
EvhRules ==
    << [key |-> "DiagnosticSettings", id |-> "evh-001"],
       [key |-> "AvailabilityZones",  id |-> "evh-002"],
       [key |-> "SLA",                id |-> "evh-003"],
       [key |-> "Private",            id |-> "evh-004"],
       [key |-> "SKU",                id |-> "evh-005"],
       [key |-> "CAF",                id |-> "evh-006"] >>

EvhDiagnosticSettings(t, ds) ==
    LET r == HasDiagnostics(ds, t.ID)
    IN  IF r.err THEN Fatal ELSE Ok(~r.has, FormatBool(r.has))

EvhAvailabilityZones(t) ==
    IF t.ZoneRedundant = Nil THEN Panic
    ELSE Ok(~Deref(t.ZoneRedundant), FormatBool(Deref(t.ZoneRedundant)))

\* only "Basic" given the lower SLA
EvhSLA_BasicOnly(t) ==
    IF ~Contains(t.SKUName, Str_Basic)
    THEN Ok(FALSE, Str_9999)
    ELSE Ok(FALSE, Str_9995)

EvhSLA(t) ==
    IF ~Contains(t.SKUName, Str_Basic) /\ ~Contains(t.SKUName, Str_Standard)
    THEN Ok(FALSE, Str_9999)
    ELSE Ok(FALSE, Str_9995)

EvhPrivate(t) ==
    Ok(~(t.PrivateEndpointConnections > 0), FormatBool(t.PrivateEndpointConnections > 0))

EvhSKU(t) == Ok(FALSE, t.SKUName)

EvhCAF(t) == Ok(~HasPrefix(t.Name, Str_evh), FormatBool(HasPrefix(t.Name, Str_evh)))

EvhEval(key, t, ctx, ds) ==
    CASE key = "DiagnosticSettings" -> EvhDiagnosticSettings(t, ds)
      [] key = "AvailabilityZones"  -> EvhAvailabilityZones(t)
      [] key = "SLA"                -> EvhSLA(t)
      [] key = "Private"            -> EvhPrivate(t)
      [] key = "SKU"                -> EvhSKU(t)
      [] key = "CAF"                -> EvhCAF(t)

(***************************************************************************)
(* Databricks workspace rules (DatabricksScanner.GetRecommendations).      *)
(***************************************************************************)
DbwRules ==
    << [key |-> "dbw-001", id |-> "dbw-001"],
       [key |-> "dbw-003", id |-> "dbw-003"],
       [key |-> "dbw-004", id |-> "dbw-004"],
       [key |-> "dbw-005", id |-> "dbw-005"],
       [key |-> "dbw-006", id |-> "dbw-006"],
       [key |-> "dbw-007", id |-> "dbw-007"] >>

\* the lookup with the resource id as it is, not lower-cased
Dbw001_NoLower(t, ctx) == Ok(~(t.ID \in ctx.DiagnosticsSettings), Str_empty)

Dbw001(t, ctx) == Ok(~(ToLower(t.ID) \in ctx.DiagnosticsSettings), Str_empty)

Dbw003(t) == Ok(FALSE, Str_9995)

Dbw004(t) == Ok(~(t.PrivateEndpointConnections > 0), Str_empty)

Dbw005(t) == Ok(FALSE, t.SKUName)

Dbw006(t) == Ok(~HasPrefix(t.Name, Str_dbw), Str_empty)

\* p == to.Ptr(true): to.Ptr allocates a new bool, and == on pointers compares
\* addresses, so the comparison is false for every p, nil or not.
EqualsNewPtr(p, v) == FALSE

Dbw007(t) ==
    IF t.Parameters = Nil THEN Panic
    ELSE LET e == Deref(t.Parameters).EnableNoPublicIP
         IN  Ok(e # Nil /\ EqualsNewPtr(Deref(e).Value, TRUE), Str_empty)

DbwEval(key, t, ctx, ds) ==
    CASE key = "dbw-001" -> Dbw001(t, ctx)
      [] key = "dbw-003" -> Dbw003(t)
      [] key = "dbw-004" -> Dbw004(t)
      [] key = "dbw-005" -> Dbw005(t)
      [] key = "dbw-006" -> Dbw006(t)
      [] key = "dbw-007" -> Dbw007(t)

(***************************************************************************)
(* Managed cluster rules (AKSScanner.GetRules).                            *)
(***************************************************************************)
\* "aks-007" declared with the id of the rule before it
AksRules_DuplicateId ==
    << [key |-> "DiagnosticSettings", id |-> "aks-001"],
       [key |-> "AvailabilityZones",  id |-> "aks-002"],
       [key |-> "SLA",                id |-> "aks-003"],
       [key |-> "Private",            id |-> "aks-004"],
       [key |-> "SKU",                id |-> "aks-005"],
       [key |-> "CAF",                id |-> "aks-006"],
       [key |-> "aks-007",            id |-> "aks-006"],
       [key |-> "aks-008",            id |-> "aks-008"],
       [key |-> "aks-009",            id |-> "aks-009"],
       [key |-> "aks-010",            id |-> "aks-010"],
       [key |-> "aks-011",            id |-> "aks-011"],
       [key |-> "aks-012",            id |-> "aks-012"],
       [key |-> "aks-013",            id |-> "aks-013"],
       [key |-> "aks-014",            id |-> "aks-014"],
       [key |-> "aks-015",            id |-> "aks-015"] >>

AksRules ==
    << [key |-> "DiagnosticSettings", id |-> "aks-001"],
       [key |-> "AvailabilityZones",  id |-> "aks-002"],
       [key |-> "SLA",                id |-> "aks-003"],
       [key |-> "Private",            id |-> "aks-004"],
       [key |-> "SKU",                id |-> "aks-005"],
       [key |-> "CAF",                id |-> "aks-006"],
       [key |-> "aks-007",            id |-> "aks-007"],
       [key |-> "aks-008",            id |-> "aks-008"],
       [key |-> "aks-009",            id |-> "aks-009"],
       [key |-> "aks-010",            id |-> "aks-010"],
       [key |-> "aks-011",            id |-> "aks-011"],
       [key |-> "aks-012",            id |-> "aks-012"],
       [key |-> "aks-013",            id |-> "aks-013"],
       [key |-> "aks-014",            id |-> "aks-014"],
       [key |-> "aks-015",            id |-> "aks-015"] >>

AksDiagnosticSettings(t, ds) ==
    LET r == HasDiagnostics(ds, t.ID)
    IN  IF r.err THEN Fatal ELSE Ok(~r.has, Str_empty)

\* a pool with one zone taken for zoned
AksZones_OffByOne(t) ==
    \A i \in 1..Len(t.AgentPoolProfiles) :
        ~(\/ t.AgentPoolProfiles[i].AvailabilityZones = Nil
          \/ SliceLen(t.AgentPoolProfiles[i].AvailabilityZones) < 1)

\* the loop of aks-002 and aks-003: zones stays true unless some profile has
\* nil zones or at most one
AksZones(t) ==
    \A i \in 1..Len(t.AgentPoolProfiles) :
        ~(\/ t.AgentPoolProfiles[i].AvailabilityZones = Nil
          \/ SliceLen(t.AgentPoolProfiles[i].AvailabilityZones) <= 1)

\* sku := "Free"; if c.SKU != nil && c.SKU.Tier != nil { sku = *c.SKU.Tier }
AksTier(t) ==
    IF t.SKU # Nil /\ Deref(t.SKU).Tier # Nil THEN Deref(Deref(t.SKU).Tier)
    ELSE Str_Free

AksAvailabilityZones(t) == Ok(~AksZones(t), Str_empty)

AksSLA(t) ==
    LET sla == IF ~Contains(AksTier(t), Str_Free)
               THEN (IF AksZones(t) THEN Str_9995 ELSE Str_999)
               ELSE Str_None
    IN  Ok(sla = Str_None, sla)

AksPrivate(t) ==
    LET a == t.APIServerAccessProfile
        pe == /\ a # Nil
              /\ Deref(a).EnablePrivateCluster # Nil
              /\ Deref(Deref(a).EnablePrivateCluster)
    IN  Ok(~pe, Str_empty)

AksSKU(t) == Ok(AksTier(t) = Str_Free, AksTier(t))

AksCAF(t) == Ok(~HasPrefix(t.Name, Str_aks), Str_empty)

Aks007(t) ==
    LET a == t.AADProfile
        aad == a # Nil /\ Deref(a).Managed # Nil /\ Deref(Deref(a).Managed)
    IN  Ok(~aad, Str_empty)

Aks008(t) ==
    IF t.EnableRBAC = Nil THEN Panic ELSE Ok(~Deref(t.EnableRBAC), Str_empty)

Aks009(t) ==
    IF t.DisableLocalAccounts # Nil /\ Deref(t.DisableLocalAccounts)
    THEN Ok(FALSE, Str_empty)
    ELSE Ok(TRUE, Str_empty)

\* p, exists := c.Properties.AddonProfiles[name]
AddonExists(t, name) == name \in DOMAIN t.AddonProfiles

Aks010(t) ==
    IF ~AddonExists(t, "httpApplicationRouting") THEN Ok(FALSE, Str_empty)
    ELSE LET p == t.AddonProfiles["httpApplicationRouting"]
         IN  IF p.Enabled = Nil THEN Panic ELSE Ok(Deref(p.Enabled), Str_empty)

Aks011(t) ==
    IF ~AddonExists(t, "omsagent") THEN Ok(TRUE, Str_empty)
    ELSE LET p == t.AddonProfiles["omsagent"]
         IN  IF p.Enabled = Nil THEN Panic ELSE Ok(~Deref(p.Enabled), Str_empty)

Aks012(t) ==
    IF t.NetworkProfile = Nil THEN Panic
    ELSE LET o == Deref(t.NetworkProfile).OutboundType
         IN  IF o = Nil THEN Panic
             ELSE Ok(~(Deref(o) = "userDefinedRouting"), Str_empty)

Aks013(t) ==
    IF t.NetworkProfile = Nil THEN Panic
    ELSE LET n == Deref(t.NetworkProfile).NetworkPlugin
         IN  IF n = Nil THEN Panic
             ELSE Ok(Deref(n) = "kubenet", Str_empty)

Aks014(t) ==
    IF Len(t.AgentPoolProfiles) > 0
    THEN LET p == t.AgentPoolProfiles[1]
         IN  IF p.EnableAutoScaling # Nil
             THEN Ok(~Deref(p.EnableAutoScaling), Str_empty)
             ELSE Ok(TRUE, Str_empty)
    ELSE Ok(TRUE, Str_empty)

Aks015(t) == Ok(t.Tags = Nil \/ Deref(t.Tags) = 0, Str_empty)

AksEval(key, t, ctx, ds) ==
    CASE key = "DiagnosticSettings" -> AksDiagnosticSettings(t, ds)
      [] key = "AvailabilityZones"  -> AksAvailabilityZones(t)
      [] key = "SLA"                -> AksSLA(t)
      [] key = "Private"            -> AksPrivate(t)
      [] key = "SKU"                -> AksSKU(t)
      [] key = "CAF"                -> AksCAF(t)
      [] key = "aks-007"            -> Aks007(t)
      [] key = "aks-008"            -> Aks008(t)
      [] key = "aks-009"            -> Aks009(t)
      [] key = "aks-010"            -> Aks010(t)
      [] key = "aks-011"            -> Aks011(t)
      [] key = "aks-012"            -> Aks012(t)
      [] key = "aks-013"            -> Aks013(t)
      [] key = "aks-014"            -> Aks014(t)
      [] key = "aks-015"            -> Aks015(t)

(***************************************************************************)
(* The recommendation engine.  A rule table is a Go map; the engine ranges *)
(* over it.  The order of a range over a map is not specified: the model   *)
(* takes the orders of an iterator that starts at a random entry and wraps *)
(* around, each of which a build can produce.                              *)
(***************************************************************************)
Tables == {"aks", "evh", "dbw"}

Rules(table) ==
    CASE table = "aks" -> AksRules
      [] table = "evh" -> EvhRules
      [] table = "dbw" -> DbwRules

Eval(table, key, t, ctx, ds) ==
    CASE table = "aks" -> AksEval(key, t, ctx, ds)
      [] table = "evh" -> EvhEval(key, t, ctx, ds)
      [] table = "dbw" -> DbwEval(key, t, ctx, ds)

\* the orders a range over a map of n rules visits them in: the declared order
\* started at another key
IterationOrders(n) ==
    {[i \in 1..n |-> ((i - 1 + k) % n) + 1] :
        k \in 0..(IF n - 1 < MaxShift THEN n - 1 ELSE MaxShift)}

\* one rule against one resource: the row, or the way the process stopped
EvaluateRecommendation(table, rule, t, ctx, ds) ==
    LET r == Eval(table, rule.key, t, ctx, ds)
    IN  [ruleId |-> rule.id, outcome |-> r.outcome,
         broken |-> r.broken, detail |-> r.detail]

\* every rule of the table against one resource, in the order the range visits
\* them; the first predicate that stops the process ends the evaluation
EvaluateRecommendations(table, t, ctx, ds, order) ==
    LET rules == Rules(table)
        rows == [i \in 1..Len(rules) |->
                    EvaluateRecommendation(table, rules[order[i]], t, ctx, ds)]
        stops == {i \in 1..Len(rules) : rows[i].outcome # "ok"}
    IN  IF stops = {} THEN [outcome |-> "ok", rows |-> rows]
        ELSE [outcome |-> rows[CHOOSE i \in stops : \A j \in stops : i <= j].outcome,
              rows |-> <<>>]

(***************************************************************************)
(* Resources as the listings return them.  ID, Name, Type, Location, SKU   *)
(* and Properties are always populated by the service; the optional fields *)
(* are pointers that may be nil.                                           *)
(***************************************************************************)
IdChars == {"a", "A", "b"}

Ids == [1..MaxIdLen -> IdChars]

Namespace(id, name, sku, zoneRedundant, pec) ==
    [kind |-> "evh", ID |-> id, Name |-> name,
     Type |-> "Microsoft.EventHub/Namespaces", Location |-> "westeurope",
     SKUName |-> sku, ZoneRedundant |-> zoneRedundant,
     PrivateEndpointConnections |-> pec]

Workspace(id, name, sku, pec, parameters) ==
    [kind |-> "dbw", ID |-> id, Name |-> name,
     Type |-> "Microsoft.Databricks/workspaces", Location |-> "westeurope",
     SKUName |-> sku, PrivateEndpointConnections |-> pec,
     Parameters |-> parameters]

Profile(zones, autoScaling) ==
    [AvailabilityZones |-> zones, EnableAutoScaling |-> autoScaling]

Cluster(id, name) ==
    [kind |-> "aks", ID |-> id, Name |-> name,
     Type |-> "Microsoft.ContainerService/managedClusters",
     Location |-> "westeurope",
     AgentPoolProfiles |-> << Profile(Ptr(<<"1", "2", "3">>), Ptr(TRUE)) >>,
     SKU |-> Ptr([Tier |-> Ptr(Str_Standard)]),
     APIServerAccessProfile |-> Ptr([EnablePrivateCluster |-> Ptr(TRUE)]),
     AADProfile |-> Ptr([Managed |-> Ptr(TRUE)]),
     EnableRBAC |-> Ptr(TRUE),
     DisableLocalAccounts |-> Ptr(TRUE),
     AddonProfiles |-> [n \in {"omsagent"} |-> [Enabled |-> Ptr(TRUE)]],
     NetworkProfile |-> Ptr([OutboundType |-> Ptr("userDefinedRouting"),
                             NetworkPlugin |-> Ptr("azure")]),
     Tags |-> Ptr(1)]

OptBool == {Nil, Ptr(TRUE), Ptr(FALSE)}

DefaultId == [i \in 1..MaxIdLen |-> "a"]

Name_evh1 == <<"e", "v", "h", "1">>

Name_dbw1 == <<"d", "b", "w", "1">>

Name_aks1 == <<"a", "k", "s", "1">>

Name_prod == <<"p", "r", "o", "d">>

Sku_BasicV2 == <<"B", "a", "s", "i", "c", "2">>

Sku_premium == <<"p", "r", "e", "m", "i", "u", "m">>

Sku_standard == <<"s", "t", "a", "n", "d", "a", "r", "d">>

Names == {Name_evh1, Name_dbw1, Name_aks1, Name_prod}

\* namespaces over every SKU name, zone redundancy, private endpoint count, name
Namespaces ==
    {Namespace(DefaultId, n, sku, z, pec) :
        n \in Names, sku \in {Str_Basic, Str_Standard, Str_Premium, Sku_BasicV2},
        z \in OptBool, pec \in {0, 1}}

NoPublicIPs ==
    {Nil} \cup {Ptr([EnableNoPublicIP |-> e]) :
                    e \in {Nil} \cup {Ptr([Value |-> v]) : v \in OptBool}}

Workspaces ==
    {Workspace(DefaultId, n, sku, pec, p) :
        n \in {Name_dbw1, Name_prod}, sku \in {Sku_premium, Sku_standard},
        pec \in {0, 1}, p \in NoPublicIPs}

ZoneSlices == {Nil, Ptr(<<>>), Ptr(<<"1">>), Ptr(<<"1", "2">>), Ptr(<<"1", "2", "3">>)}

SeqsUpTo(S, n) == UNION {[1..k -> S] : k \in 0..n}

Tiers == {Nil, Ptr([Tier |-> Nil])}
         \cup {Ptr([Tier |-> Ptr(s)]) : s \in {Str_Free, Str_Standard, Str_Premium}}

AddonMaps ==
    UNION {[names -> {[Enabled |-> e] : e \in OptBool}] :
              names \in SUBSET {"httpApplicationRouting", "omsagent"}}

NetworkProfiles ==
    {Nil} \cup {Ptr([OutboundType |-> o, NetworkPlugin |-> n]) :
                    o \in {Nil, Ptr("userDefinedRouting"), Ptr("loadBalancer")},
                    n \in {Nil, Ptr("kubenet"), Ptr("azure")}}

\* clusters: the default cluster with one group of fields varied at a time
\* (each rule reads one group only)
Clusters ==
    LET c == Cluster(DefaultId, Name_aks1)
    IN  {[c EXCEPT !.AgentPoolProfiles = ps, !.SKU = sku] :
            ps \in SeqsUpTo({Profile(z, Ptr(TRUE)) : z \in ZoneSlices}, MaxProfiles),
            sku \in Tiers}
        \cup {[c EXCEPT !.AgentPoolProfiles = ps] :
            ps \in SeqsUpTo({Profile(Ptr(<<"1", "2">>), a) : a \in OptBool}, MaxProfiles)}
        \cup {[c EXCEPT !.APIServerAccessProfile = a] :
            a \in {Nil} \cup {Ptr([EnablePrivateCluster |-> b]) : b \in OptBool}}
        \cup {[c EXCEPT !.AADProfile = a] :
            a \in {Nil} \cup {Ptr([Managed |-> b]) : b \in OptBool}}
        \cup {[c EXCEPT !.EnableRBAC = b] : b \in OptBool}
        \cup {[c EXCEPT !.DisableLocalAccounts = b] : b \in OptBool}
        \cup {[c EXCEPT !.AddonProfiles = m] : m \in AddonMaps}
        \cup {[c EXCEPT !.NetworkProfile = n] : n \in NetworkProfiles}
        \cup {[c EXCEPT !.Tags = t] : t \in {Nil, Ptr(0), Ptr(1)}}
        \cup {[c EXCEPT !.Name = n] : n \in Names}

\* one resource of each kind under every id
Identified ==
    {Namespace(i, Name_evh1, Str_Standard, Ptr(TRUE), 1) : i \in Ids}
    \cup {Workspace(i, Name_dbw1, Sku_premium, 1, Ptr([EnableNoPublicIP |-> Nil])) : i \in Ids}
    \cup {Cluster(i, Name_aks1) : i \in Ids}

TableOf(t) == t.kind

(***************************************************************************)
(* State.                                                                  *)
(*   phase, scanContext, task, results, recorded, advisor, run, prev:      *)
(*       one scan run over a subscription (specification Spec)             *)
(*   cancelled:                                                            *)
(*       whether the run's context (config.Ctx) has been cancelled         *)
(*   input, evaluated:                                                     *)
(*       one resource, the context it is evaluated in, and what the engine *)
(*       returned for it (specification SpecEval)                          *)
(*   call, returned:                                                       *)
(*       one call of a scanner's Scan or listing and what it returned      *)
(*       (specification SpecScan)                                          *)
(***************************************************************************)
VARIABLES phase, scanContext, task, results, recorded, advisor, run, prev,
          cancelled, input, evaluated, call, returned

runVars ==
    <<phase, scanContext, task, results, recorded, advisor, run, prev, cancelled>>

evalVars == <<input, evaluated>>

scanVars == <<call, returned>>

vars == <<phase, scanContext, task, results, recorded, advisor, run, prev,
          cancelled, input, evaluated, call, returned>>

(***************************************************************************)
(* Evaluation of the rule tables on every resource of the bounded sets.    *)
(***************************************************************************)
\* the resource ids that own a diagnostic setting, as the service returns them
SettingSets == {{}} \cup {{i} : i \in Ids}

EvalInput(t, settings, err) ==
    [target |-> t, settings |-> settings,
     ctx |-> [DiagnosticsSettings |-> BuildIndex(settings)],
     ds |-> [index |-> BuildIndex(settings), err |-> err]]

Inputs ==
    {EvalInput(t, s, e) : t \in Identified, s \in SettingSets, e \in BOOLEAN}
    \cup {EvalInput(t, {}, FALSE) : t \in Namespaces \cup Workspaces \cup Clusters}

NotEvaluated == [op |-> "none", order |-> <<>>, outcome |-> "ok", rows |-> <<>>]

NoInput == EvalInput(Namespace(DefaultId, Name_evh1, Str_Standard, Ptr(TRUE), 1), {}, FALSE)

\* engine.EvaluateRecommendations(rules, target, scanContext)
EvaluateTable ==
    /\ evaluated.op = "none"
    /\ \E order \in IterationOrders(Len(Rules(TableOf(input.target)))) :
          LET r == EvaluateRecommendations(TableOf(input.target), input.target,
                                           input.ctx, input.ds, order)
          IN  evaluated' = [op |-> "table", order |-> order,
                            outcome |-> r.outcome, rows |-> r.rows]
    /\ UNCHANGED <<input, runVars, scanVars>>

\* one rule's Eval on the resource
EvaluateRule ==
    /\ evaluated.op = "none"
    /\ \E i \in 1..Len(Rules(TableOf(input.target))) :
          LET r == EvaluateRecommendation(TableOf(input.target),
                                          Rules(TableOf(input.target))[i],
                                          input.target, input.ctx, input.ds)
          IN  evaluated' = [op |-> "rule", order |-> <<i>>,
                            outcome |-> r.outcome,
                            rows |-> IF r.outcome = "ok" THEN <<r>> ELSE <<>>]
    /\ UNCHANGED <<input, runVars, scanVars>>

(***************************************************************************)
(* The subscription that is scanned: its configuration, its resource       *)
(* group, what the paged listings return and which resources own a         *)
(* diagnostic setting.  It does not change between runs.                   *)
(***************************************************************************)
Config == [SubscriptionID |-> "sub-1", SubscriptionName |-> "Subscription One"]

ResourceGroups == {"rg1"}

Scanners == {"evh", "dbw"}

Units == ResourceGroups \X Scanners

FirstChars == <<"A", "b", "c", "d">>

PageId(p) == [i \in 1..MaxIdLen |-> IF i = 1 THEN FirstChars[p] ELSE "a"]

\* the pages a listing of the resource group returns, one resource a page
Pages(scanner) ==
    CASE scanner = "evh" ->
            [p \in 1..MaxPages |->
                << Namespace(PageId(p), Str_evh \o <<ToString(p)>>,
                             Str_Standard, Ptr(p = 1), p - 1) >>]
      [] scanner = "dbw" ->
            << << Workspace([i \in 1..MaxIdLen |-> "b"], Name_prod, Sku_premium, 0,
                            Ptr([EnableNoPublicIP |-> Ptr([Value |-> Ptr(TRUE)])])) >> >>

\* ids of the resources that own a diagnostic setting, in the service's casing
SettingIds ==
    {[i \in 1..MaxIdLen |-> IF i = 1 THEN "a" ELSE "A"],
     [i \in 1..MaxIdLen |-> "B"]}

\* Azure Advisor's recommendations, one page
AdvisorPages ==
    << << [ImpactedValue |-> Ptr("evh1"), Category |-> Ptr("Security"),
           ShortDescription |-> Ptr([Problem |-> Ptr("Enable private endpoints")]),
           ImpactedField |-> Ptr("Microsoft.EventHub/Namespaces"),
           PotentialBenefits |-> Nil, Risk |-> Ptr("Warning"),
           LearnMoreLink |-> Nil] >> >>

Errors == {"PermissionError", "ConfigurationError"}

\* the error a request returns once its context is cancelled
Cancelled == "CancellationError"

\* pager.NextPage(ctx): a page, an error of the service, or with a cancelled
\* context the context's error
PageOutcomes(ctxCancelled) ==
    IF ctxCancelled THEN {Cancelled} ELSE {"ok"} \cup Errors

\* azqr.ShouldSkipError: a permission gap is skipped, anything else is a fault
ShouldSkipError(err) == err = "PermissionError"

(***************************************************************************)
(* A scanner's list and Scan (the same code in every scanner).             *)
(***************************************************************************)
\* the loop left on an error with the pages fetched so far and no error
ListNextPage_KeepsPrefix(acc, fetched, total, page, outcome) ==
    IF outcome = "ok"
    THEN [resources |-> acc \o page, err |-> "none", fetched |-> fetched + 1]
    ELSE [resources |-> acc, err |-> "none", fetched |-> total]

\* "append(resp.Value, vmss...)": the newest page put in front
ListNextPage_Prepends(acc, fetched, total, page, outcome) ==
    IF outcome = "ok"
    THEN [resources |-> page \o acc, err |-> "none", fetched |-> fetched + 1]
    ELSE [resources |-> <<>>, err |-> outcome, fetched |-> fetched]

\* one turn of the loop "for pager.More()": the resources listed so far, the
\* error list returns with, and the number of pages fetched
ListNextPage(acc, fetched, total, page, outcome) ==
    IF outcome = "ok"
    THEN [resources |-> acc \o page, err |-> "none", fetched |-> fetched + 1]
    ELSE [resources |-> <<>>, err |-> outcome, fetched |-> fetched]

\* only the first row the engine returned kept
ServiceResult_FirstRow(config, resourceGroupName, w, rr) ==
    [SubscriptionID |-> config.SubscriptionID,
     SubscriptionName |-> config.SubscriptionName,
     ResourceGroup |-> resourceGroupName,
     ServiceName |-> w.Name, Type |-> w.Type, Location |-> w.Location,
     Recommendations |-> SubSeq(rr, 1, 1)]

\* the result Scan appends for one resource
ServiceResult(config, resourceGroupName, w, rr) ==
    [SubscriptionID |-> config.SubscriptionID,
     SubscriptionName |-> config.SubscriptionName,
     ResourceGroup |-> resourceGroupName,
     ServiceName |-> w.Name, Type |-> w.Type, Location |-> w.Location,
     Recommendations |-> rr]

\* "results = append(results, ...)" written as an assignment: only the result
\* of the last resource is kept
ScanResources_KeepsLast(config, resourceGroupName, resources, ctx, ds, orders) ==
    LET ev == [i \in 1..Len(resources) |->
                  EvaluateRecommendations(TableOf(resources[i]), resources[i],
                                          ctx, ds, orders[i])]
        stops == {i \in 1..Len(resources) : ev[i].outcome # "ok"}
        all == [i \in 1..Len(resources) |->
                   ServiceResult(config, resourceGroupName, resources[i], ev[i].rows)]
    IN  IF stops = {}
        THEN [outcome |-> "ok", results |-> SubSeq(all, Len(all), Len(all))]
        ELSE [outcome |-> ev[CHOOSE i \in stops : \A j \in stops : i <= j].outcome,
              results |-> <<>>]

\* the loop over the listed resources: each is evaluated (the range over the
\* rule table in the order orders[i]) and stamped; a predicate that stops the
\* process stops the scan
ScanResources(config, resourceGroupName, resources, ctx, ds, orders) ==
    LET ev == [i \in 1..Len(resources) |->
                  EvaluateRecommendations(TableOf(resources[i]), resources[i],
                                          ctx, ds, orders[i])]
        stops == {i \in 1..Len(resources) : ev[i].outcome # "ok"}
    IN  IF stops = {}
        THEN [outcome |-> "ok",
              results |-> [i \in 1..Len(resources) |->
                              ServiceResult(config, resourceGroupName,
                                            resources[i], ev[i].rows)]]
        ELSE [outcome |-> ev[CHOOSE i \in stops : \A j \in stops : i <= j].outcome,
              results |-> <<>>]

\* a predicate that remembers what it looked up: the id is written to the index
ScanContextAfter_Memoises(ctx, resources) ==
    [DiagnosticsSettings |->
        ctx.DiagnosticsSettings \cup {ToLower(resources[i].ID) : i \in 1..Len(resources)}]

\* what the ScanContext behind the pointer holds when Scan returns: Scan hands
\* the pointer to the engine and the predicates read the index, nothing is
\* assigned through it
ScanContextAfter(ctx, resources) == ctx

(***************************************************************************)
(* The Advisor scanner.                                                    *)
(***************************************************************************)
StringOr(p) == IF p = Nil THEN "" ELSE Deref(p)

\* the second loop of ListRecommendations
AdvisorResult(config, r) ==
    [SubscriptionID |-> config.SubscriptionID,
     SubscriptionName |-> config.SubscriptionName,
     Name |-> StringOr(r.ImpactedValue), Type |-> StringOr(r.ImpactedField),
     Category |-> StringOr(r.Category),
     Description |-> IF r.ShortDescription # Nil
                     THEN StringOr(Deref(r.ShortDescription).Problem) ELSE "",
     PotentialBenefits |-> StringOr(r.PotentialBenefits),
     Risk |-> StringOr(r.Risk), LearnMoreLink |-> StringOr(r.LearnMoreLink)]

AdvisorResults(config, recs) ==
    [i \in 1..Len(recs) |-> AdvisorResult(config, recs[i])]

\* AdvisorScanner.Scan after ListRecommendations returned (rec, err): what it
\* returns, or the process exits in log.Fatal
AdvisorAfterList(rec, err) ==
    IF err = "none" THEN [exits |-> FALSE, results |-> rec]
    ELSE IF ShouldSkipError(err) THEN [exits |-> FALSE, results |-> <<>>]
    ELSE [exits |-> TRUE, results |-> <<>>]

(***************************************************************************)
(* A whole call of a scanner: the listing run to its end, then the loop    *)
(* over the resources.  The scanners scoped to a resource group            *)
(* (VirtualMachineScaleSetScanner, ContainerInstanceScanner,               *)
(* SignalRScanner) stamp the group they were called with; NSGScanner lists *)
(* the subscription and takes the group from the resource id.              *)
(***************************************************************************)
\* strings.Split(s, sep) for a separator of one character
RECURSIVE Split(_, _)
Split(s, sep) ==
    IF s = <<>> THEN << <<>> >>
    ELSE LET rest == Split(Tail(s), sep)
         IN  IF Head(s) = sep THEN << <<>> >> \o rest
             ELSE << <<Head(s)>> \o Head(rest) >> \o Tail(rest)

\* azqr.GetResourceGroupFromResourceID: the fifth part of
\* /subscriptions/{id}/resourceGroups/{group}/providers/...
GetResourceGroupFromResourceID(resourceID) == Split(resourceID, "/")[5]

\* the outcomes of the page requests of one listing: request failAt fails
Outcomes(pages, failAt, err) ==
    [i \in 1..Len(pages) |-> IF i = failAt THEN err ELSE "ok"]

\* the loop "for pager.More()" run until the pager has no more pages or a
\* request fails
RECURSIVE ListFrom(_, _, _, _)
ListFrom(acc, fetched, pages, outcomes) ==
    IF fetched >= Len(pages)
    THEN [resources |-> acc, err |-> "none", fetched |-> fetched]
    ELSE LET r == ListNextPage(acc, fetched, Len(pages), pages[fetched + 1],
                               outcomes[fetched + 1])
         IN  IF r.err # "none" THEN r
             ELSE ListFrom(r.resources, r.fetched, pages, outcomes)

\* c.list(resourceGroupName)
list(pages, outcomes) == ListFrom(<<>>, 0, pages, outcomes)

\* the error of list dropped: Scan goes on with what list returned
Scan_IgnoresListError(config, resourceGroupName, pages, outcomes, ctx, ds, orders) ==
    LET l == list(pages, outcomes)
        r == ScanResources(config, resourceGroupName, l.resources, ctx, ds, orders)
    IN  [outcome |-> r.outcome, results |-> r.results, err |-> "none",
         listed |-> l, evaluated |-> Len(l.resources)]

\* Scan(resourceGroupName, scanContext) of a scanner scoped to a resource
\* group: (results, err), or the process stops in a predicate; evaluated is
\* the number of resources handed to the engine
Scan(config, resourceGroupName, pages, outcomes, ctx, ds, orders) ==
    LET l == list(pages, outcomes)
        r == ScanResources(config, resourceGroupName, l.resources, ctx, ds, orders)
    IN  IF l.err # "none"
        THEN [outcome |-> "ok", results |-> Nil, err |-> l.err,
              listed |-> l, evaluated |-> 0]
        ELSE [outcome |-> r.outcome, results |-> r.results, err |-> "none",
              listed |-> l, evaluated |-> Len(l.resources)]

\* the loop of NSGScanner.Scan: as ScanResources, the resource group taken
\* from the id of each resource
NsgScanResources(config, resources, ctx, ds, orders) ==
    LET ev == [i \in 1..Len(resources) |->
                  EvaluateRecommendations(TableOf(resources[i]), resources[i],
                                          ctx, ds, orders[i])]
        stops == {i \in 1..Len(resources) : ev[i].outcome # "ok"}
    IN  IF stops = {}
        THEN [outcome |-> "ok",
              results |-> [i \in 1..Len(resources) |->
                              ServiceResult(config,
                                  GetResourceGroupFromResourceID(resources[i].ID),
                                  resources[i], ev[i].rows)]]
        ELSE [outcome |-> ev[CHOOSE i \in stops : \A j \in stops : i <= j].outcome,
              results |-> <<>>]

\* NSGScanner.Scan(scanContext)
NsgScan(config, pages, outcomes, ctx, ds, orders) ==
    LET l == list(pages, outcomes)
        r == NsgScanResources(config, l.resources, ctx, ds, orders)
    IN  IF l.err # "none"
        THEN [outcome |-> "ok", results |-> Nil, err |-> l.err,
              listed |-> l, evaluated |-> 0]
        ELSE [outcome |-> r.outcome, results |-> r.results, err |-> "none",
              listed |-> l, evaluated |-> Len(l.resources)]

\* AdvisorScanner.ListRecommendations
ListRecommendations(config, pages, outcomes) ==
    LET l == list(pages, outcomes)
    IN  IF l.err # "none"
        THEN [outcome |-> "ok", results |-> Nil, err |-> l.err,
              listed |-> l, evaluated |-> 0]
        ELSE [outcome |-> "ok", results |-> AdvisorResults(config, l.resources),
              err |-> "none", listed |-> l, evaluated |-> 0]

\* the calls that are tried: listings of up to MaxPages pages of no, one or two
\* resources, every request of which may fail
Groups == {<<"g", "1">>, <<"G">>}

ResourceId(group, name) ==
    <<"/", "s", "/", "1", "/", "r", "/">> \o group \o <<"/", "p", "/">> \o name

Listed(group, name) ==
    Namespace(ResourceId(group, name), name, Str_Standard, Ptr(TRUE), 0)

\* a listing of a resource group returns resources of that group
GroupPages(group) ==
    {<<>>, <<Listed(group, Name_evh1)>>,
     <<Listed(group, Name_prod), Listed(group, Name_aks1)>>}

SubscriptionPages ==
    {<<>>, <<Listed(<<"g", "1">>, Name_evh1)>>,
     <<Listed(<<"G">>, Name_prod), Listed(<<"g", "1">>, Name_aks1)>>}

RecommendationPages == {<<>>, AdvisorPages[1]}

Failures(pages) ==
    {[failAt |-> 0, err |-> "none"]}
    \cup {[failAt |-> i, err |-> e] : i \in 1..Len(pages), e \in Errors \cup {Cancelled}}

CallsOf(scanner, group, pageChoices) ==
    {[scanner |-> scanner, resourceGroupName |-> group, pages |-> ps,
      failAt |-> f.failAt, err |-> f.err] :
        ps \in SeqsUpTo(pageChoices, MaxPages),
        f \in UNION {Failures(qs) : qs \in SeqsUpTo(pageChoices, MaxPages)}}

ScanCalls ==
    {c \in UNION {CallsOf("vmss", g, GroupPages(g)) : g \in Groups}
            \cup CallsOf("nsg", <<>>, SubscriptionPages)
            \cup CallsOf("advisor", <<>>, RecommendationPages) :
        c.failAt <= Len(c.pages)}

(***************************************************************************)
(* The report's row order: by subscription, resource group, resource type  *)
(* and resource name, rows with equal keys staying in the order they came. *)
(***************************************************************************)
Alphabet ==
    <<"1", "2", "3", "4", "a", "b", "d", "e", "h", "k", "o", "p", "r", "s", "v", "w">>

CharCode(c) == CHOOSE i \in 1..Len(Alphabet) : Alphabet[i] = c

TypeRank(type) ==
    CASE type = "Microsoft.ContainerService/managedClusters" -> 1
      [] type = "Microsoft.Databricks/workspaces" -> 2
      [] type = "Microsoft.EventHub/Namespaces" -> 3

RECURSIVE NameLess(_, _)
NameLess(a, b) ==
    IF b = <<>> THEN FALSE
    ELSE IF a = <<>> THEN TRUE
    ELSE IF CharCode(Head(a)) # CharCode(Head(b))
         THEN CharCode(Head(a)) < CharCode(Head(b))
         ELSE NameLess(Tail(a), Tail(b))

RowLess(a, b) ==
    IF a.Type # b.Type THEN TypeRank(a.Type) < TypeRank(b.Type)
    ELSE NameLess(a.ServiceName, b.ServiceName)

\* r put behind the last row that is not after it
RECURSIVE Insert(_, _)
Insert(sorted, r) ==
    IF sorted = <<>> THEN <<r>>
    ELSE IF RowLess(r, sorted[Len(sorted)])
         THEN Append(Insert(SubSeq(sorted, 1, Len(sorted) - 1), r), sorted[Len(sorted)])
         ELSE Append(sorted, r)

RECURSIVE StableSort(_)
StableSort(rows) ==
    IF rows = <<>> THEN <<>>
    ELSE Insert(StableSort(SubSeq(rows, 1, Len(rows) - 1)), rows[Len(rows)])

(***************************************************************************)
(* The rows of a report, one for every resource and rule, as a bag.        *)
(***************************************************************************)
Row(res, r) ==
    [SubscriptionID |-> res.SubscriptionID, ResourceGroup |-> res.ResourceGroup,
     ServiceName |-> res.ServiceName, Type |-> res.Type, Location |-> res.Location,
     ruleId |-> r.ruleId, broken |-> r.broken, detail |-> r.detail]

RowBag(rs) ==
    LET places == UNION {{<<i, j>> : j \in 1..Len(rs[i].Recommendations)} :
                            i \in 1..Len(rs)}
        rowAt(pl) == Row(rs[pl[1]], rs[pl[1]].Recommendations[pl[2]])
        rows == {rowAt(pl) : pl \in places}
    IN  [r \in rows |-> Cardinality({pl \in places : rowAt(pl) = r})]

(***************************************************************************)
(* One run: Idle, BuildContext, Scanning, Aggregating, Done; Aborted when  *)
(* the context cannot be built; Exited when the process ends in log.Fatal  *)
(* or in a panic.                                                          *)
(***************************************************************************)
NotReturned == [op |-> "none"]

NoCall == [scanner |-> "none"]

NewTask == [pc |-> "pending", fetched |-> 0, acc |-> <<>>, fault |-> "none"]

NewAdvisor ==
    [pc |-> "pending", fetched |-> 0, acc |-> <<>>, fault |-> "none",
     results |-> <<>>]

NoContext == [DiagnosticsSettings |-> {}]

NoPrev == [rows |-> EmptyBag, outcomes |-> [u \in Units |-> "none"]]

RunInit ==
    /\ phase = "Idle"
    /\ scanContext = NoContext
    /\ task = [u \in Units |-> NewTask]
    /\ results = <<>>
    /\ recorded = {}
    /\ advisor = NewAdvisor
    /\ run = 1
    /\ prev = NoPrev
    /\ cancelled = FALSE

Init ==
    /\ RunInit
    /\ input = NoInput
    /\ evaluated = NotEvaluated
    /\ call = NoCall
    /\ returned = NotReturned

EvalInit ==
    /\ RunInit
    /\ input \in Inputs
    /\ evaluated = NotEvaluated
    /\ call = NoCall
    /\ returned = NotReturned

StartRun ==
    /\ phase = "Idle"
    /\ phase' = "BuildContext"
    /\ UNCHANGED <<scanContext, task, results, recorded, advisor, run, prev, cancelled, evalVars, scanVars>>

\* the diagnostics-settings index of the subscription is built, or cannot be
BuildContext ==
    /\ phase = "BuildContext"
    /\ \E outcome \in IF cancelled THEN {Cancelled} ELSE {"ok", "ContextBuildError"} :
          IF outcome = "ok"
          THEN /\ scanContext' = [DiagnosticsSettings |-> BuildIndex(SettingIds)]
               /\ phase' = "Scanning"
          ELSE /\ phase' = "Aborted"
               /\ UNCHANGED scanContext
    /\ UNCHANGED <<task, results, recorded, advisor, run, prev, cancelled, evalVars, scanVars>>

Listing(t) == t.pc \in {"pending", "listing"}

Complete(t) == t.pc \in {"done", "skipped", "failed"}

\* what the run does with the error a Scan returned
TaskError(u, err) ==
    IF ShouldSkipError(err)
    THEN /\ task' = [task EXCEPT ![u].pc = "skipped", ![u].acc = <<>>,
                                 ![u].fault = err]
         /\ UNCHANGED recorded
    ELSE /\ task' = [task EXCEPT ![u].pc = "failed", ![u].acc = <<>>,
                                 ![u].fault = err]
         /\ recorded' = recorded \cup {<<u, err>>}

\* list fetches the next page; on an error list and Scan return it
NextPage(u) ==
    /\ phase = "Scanning"
    /\ Listing(task[u])
    /\ task[u].fetched < Len(Pages(u[2]))
    /\ \E outcome \in PageOutcomes(cancelled) :
          LET r == ListNextPage(task[u].acc, task[u].fetched, Len(Pages(u[2])),
                                Pages(u[2])[task[u].fetched + 1], outcome)
          IN  IF r.err # "none"
              THEN TaskError(u, r.err)
              ELSE /\ task' = [task EXCEPT
                                  ![u].pc = "listing", ![u].acc = r.resources,
                                  ![u].fetched = r.fetched,
                                  ![u].fault = IF outcome = "ok" THEN @ ELSE outcome]
                   /\ UNCHANGED recorded
    /\ UNCHANGED <<phase, scanContext, results, advisor, run, prev, cancelled, evalVars, scanVars>>

\* the listing is complete: Scan evaluates every resource and returns, and the
\* run appends what it returned
ScanReturn(u) ==
    /\ phase = "Scanning"
    /\ Listing(task[u])
    /\ task[u].fetched = Len(Pages(u[2]))
    /\ \E orders \in [1..Len(task[u].acc) -> IterationOrders(Len(Rules(u[2])))],
          dsErr \in BOOLEAN :
          LET r == ScanResources(Config, u[1], task[u].acc, scanContext,
                                 [index |-> scanContext.DiagnosticsSettings,
                                  err |-> dsErr],
                                 orders)
          IN  IF r.outcome = "ok"
              THEN /\ results' = results \o r.results
                   /\ task' = [task EXCEPT ![u].pc = "done", ![u].acc = <<>>]
                   /\ scanContext' = ScanContextAfter(scanContext, task[u].acc)
                   /\ UNCHANGED phase
              ELSE /\ phase' = "Exited"
                   /\ UNCHANGED <<results, task, scanContext>>
    /\ UNCHANGED <<recorded, advisor, run, prev, cancelled, evalVars, scanVars>>

\* The Advisor scan follows the resource scans.
\* AdvisorScanner.Scan(scan, config) with scan false: nothing is listed
AdvisorOff ==
    /\ phase = "Scanning"
    /\ \A u \in Units : Complete(task[u])
    /\ advisor.pc = "pending"
    /\ advisor' = [advisor EXCEPT !.pc = "done"]
    /\ UNCHANGED <<phase, scanContext, task, results, recorded, run, prev, cancelled, evalVars, scanVars>>

\* s.Init(config): the client is created, or log.Fatal ends the process
AdvisorInit ==
    /\ phase = "Scanning"
    /\ \A u \in Units : Complete(task[u])
    /\ advisor.pc = "pending"
    /\ \E outcome \in {"ok", "ConfigurationError"} :
          IF outcome = "ok"
          THEN /\ advisor' = [advisor EXCEPT !.pc = "listing"]
               /\ UNCHANGED phase
          ELSE /\ advisor' = [advisor EXCEPT !.fault = outcome]
               /\ phase' = "Exited"
    /\ UNCHANGED <<scanContext, task, results, recorded, run, prev, cancelled, evalVars, scanVars>>

\* ListRecommendations fetches the next page; on an error it returns it, and
\* Scan skips it or ends the process
AdvisorNextPage ==
    /\ phase = "Scanning"
    /\ advisor.pc = "listing"
    /\ advisor.fetched < Len(AdvisorPages)
    /\ \E outcome \in PageOutcomes(cancelled) :
          LET r == ListNextPage(advisor.acc, advisor.fetched, Len(AdvisorPages),
                                AdvisorPages[advisor.fetched + 1], outcome)
              a == AdvisorAfterList(<<>>, r.err)
          IN  IF r.err = "none"
              THEN /\ advisor' = [advisor EXCEPT
                                     !.acc = r.resources, !.fetched = r.fetched,
                                     !.fault = IF outcome = "ok" THEN @ ELSE outcome]
                   /\ UNCHANGED phase
              ELSE IF a.exits
              THEN /\ advisor' = [advisor EXCEPT !.acc = <<>>, !.fault = r.err]
                   /\ phase' = "Exited"
              ELSE /\ advisor' = [advisor EXCEPT !.pc = "done", !.acc = <<>>,
                                     !.fault = r.err, !.results = a.results]
                   /\ UNCHANGED phase
    /\ UNCHANGED <<scanContext, task, results, recorded, run, prev, cancelled, evalVars, scanVars>>

\* every page is fetched: the recommendations are converted and returned
AdvisorReturn ==
    /\ phase = "Scanning"
    /\ advisor.pc = "listing"
    /\ advisor.fetched = Len(AdvisorPages)
    /\ advisor' = [advisor EXCEPT
                      !.pc = "done", !.acc = <<>>,
                      !.results = AdvisorAfterList(AdvisorResults(Config, advisor.acc),
                                                   "none").results]
    /\ UNCHANGED <<phase, scanContext, task, results, recorded, run, prev, cancelled, evalVars, scanVars>>

\* every unit of work has completed: the rows are put in the report's order
Aggregate ==
    /\ phase = "Scanning"
    /\ \A u \in Units : Complete(task[u])
    /\ advisor.pc = "done"
    /\ phase' = "Aggregating"
    /\ results' = StableSort(results)
    /\ UNCHANGED <<scanContext, task, recorded, advisor, run, prev, cancelled, evalVars, scanVars>>

\* the report is handed to the renderer
Finish ==
    /\ phase = "Aggregating"
    /\ phase' = "Done"
    /\ UNCHANGED <<scanContext, task, results, recorded, advisor, run, prev, cancelled, evalVars, scanVars>>

\* the run's context is cancelled (a deadline, or the user's interrupt)
Cancel ==
    /\ phase \in {"BuildContext", "Scanning"}
    /\ ~cancelled
    /\ cancelled' = TRUE
    /\ UNCHANGED <<phase, scanContext, task, results, recorded, advisor, run, prev,
                   evalVars, scanVars>>

\* the scan is run a second time against the same subscription
Rerun ==
    /\ phase = "Done"
    /\ run = 1
    /\ run' = 2
    /\ prev' = [rows |-> RowBag(results), outcomes |-> [u \in Units |-> task[u].pc]]
    /\ phase' = "Idle"
    /\ scanContext' = NoContext
    /\ task' = [u \in Units |-> NewTask]
    /\ results' = <<>>
    /\ recorded' = {}
    /\ advisor' = NewAdvisor
    /\ cancelled' = FALSE
    /\ UNCHANGED <<evalVars, scanVars>>

Next ==
    \/ StartRun
    \/ BuildContext
    \/ \E u \in Units : NextPage(u)
    \/ \E u \in Units : ScanReturn(u)
    \/ AdvisorOff
    \/ AdvisorInit
    \/ AdvisorNextPage
    \/ AdvisorReturn
    \/ Aggregate
    \/ Finish
    \/ Cancel
    \/ Rerun

Spec == Init /\ [][Next]_vars

EvalNext ==
    \/ EvaluateTable
    \/ EvaluateRule

SpecEval == EvalInit /\ [][EvalNext]_vars

(***************************************************************************)
(* One call of Scan or of a listing on every input of ScanCalls.           *)
(***************************************************************************)
ScanInit ==
    /\ RunInit
    /\ input = NoInput
    /\ evaluated = NotEvaluated
    /\ call \in ScanCalls
    /\ returned = NotReturned

NoDiagnostics == [index |-> {}, err |-> FALSE]

ListedCount == Len(list(call.pages, [i \in 1..Len(call.pages) |-> "ok"]).resources)

CallScan ==
    /\ returned.op = "none"
    /\ call.scanner = "vmss"
    /\ \E orders \in [1..ListedCount -> IterationOrders(Len(EvhRules))] :
          returned' = [op |-> "Scan"] @@
              Scan(Config, call.resourceGroupName, call.pages,
                   Outcomes(call.pages, call.failAt, call.err),
                   NoContext, NoDiagnostics, orders)
    /\ UNCHANGED <<call, runVars, evalVars>>

CallNsgScan ==
    /\ returned.op = "none"
    /\ call.scanner = "nsg"
    /\ \E orders \in [1..ListedCount -> IterationOrders(Len(EvhRules))] :
          returned' = [op |-> "NsgScan"] @@
              NsgScan(Config, call.pages,
                      Outcomes(call.pages, call.failAt, call.err),
                      NoContext, NoDiagnostics, orders)
    /\ UNCHANGED <<call, runVars, evalVars>>

CallListRecommendations ==
    /\ returned.op = "none"
    /\ call.scanner = "advisor"
    /\ returned' = [op |-> "ListRecommendations"] @@
           ListRecommendations(Config, call.pages,
                               Outcomes(call.pages, call.failAt, call.err))
    /\ UNCHANGED <<call, runVars, evalVars>>

ScanNext ==
    \/ CallScan
    \/ CallNsgScan
    \/ CallListRecommendations

SpecScan == ScanInit /\ [][ScanNext]_vars

(***************************************************************************)
(* Claims about the rule tables and the engine (specification SpecEval).   *)
(***************************************************************************)
EvaluatedIds == [i \in 1..Len(evaluated.rows) |-> evaluated.rows[i].ruleId]

DeclaredIds(table) == [i \in 1..Len(Rules(table)) |-> Rules(table)[i].id]

\* C1: evaluating a rule table against a resource gives one row for every rule
\* of the table, in the order the table declares the rules, on every run.
C1_RowsInDeclarationOrder ==
    (evaluated.op = "table" /\ evaluated.outcome = "ok")
        => EvaluatedIds = DeclaredIds(TableOf(input.target))

\* the two ids are the same up to the case of their letters
EqualFold(a, b) ==
    /\ Len(a) = Len(b)
    /\ \A i \in 1..Len(a) :
          \/ a[i] = b[i]
          \/ <<a[i], b[i]>> \in {<<"a", "A">>, <<"A", "a">>, <<"b", "B">>, <<"B", "b">>}

DiagnosticRuleIds == {"aks-001", "evh-001", "dbw-001"}

HasSetting == \E s \in input.settings : EqualFold(s, input.target.ID)

\* C2: the diagnostic-settings rule is not broken exactly when some setting's
\* resource id equals the resource's id up to letter case; an id without a
\* setting gives broken=true and no error: the lookup itself never fails, and
\* the scanner-side check fails only when the diagnostics service does.
C2_LookupIgnoresCase ==
    /\ \A i \in 1..Len(evaluated.rows) :
          evaluated.rows[i].ruleId \in DiagnosticRuleIds
              => evaluated.rows[i].broken = ~HasSetting
    /\ (evaluated.op # "none" /\ evaluated.outcome = "fatal") => input.ds.err
    /\ (evaluated.op = "rule" /\ input.target.kind = "dbw" /\ evaluated.order = <<1>>)
          => evaluated.outcome = "ok"

C2_Witness ==
    /\ evaluated.op = "rule"
    /\ Len(evaluated.rows) = 1
    /\ evaluated.rows[1].ruleId = "dbw-001"
    /\ ~evaluated.rows[1].broken
    /\ input.target.ID \notin input.settings
    /\ HasSetting

RowsWithId(id) ==
    {evaluated.rows[i] : i \in {j \in 1..Len(evaluated.rows) : evaluated.rows[j].ruleId = id}}

Pools == input.target.AgentPoolProfiles

SomePoolUnzoned ==
    \E i \in 1..Len(Pools) :
        \/ Pools[i].AvailabilityZones = Nil
        \/ Len(Deref(Pools[i].AvailabilityZones)) = 1

EveryPoolZoned ==
    \A i \in 1..Len(Pools) :
        /\ Pools[i].AvailabilityZones # Nil
        /\ Len(Deref(Pools[i].AvailabilityZones)) >= 2

NonFreeTier ==
    /\ input.target.SKU # Nil
    /\ Deref(input.target.SKU).Tier # Nil
    /\ Deref(Deref(input.target.SKU).Tier) \in {Str_Standard, Str_Premium}

\* C5: a managed cluster with an agent pool whose availability zones are nil or
\* of length 1 breaks the availability-zones rule; on a tier that is not free
\* the SLA rule's detail is "99.95%" exactly when every agent pool has two
\* zones or more, and "99.9%" otherwise.
C5_ZonesAndSLA ==
    input.target.kind = "aks" =>
        /\ \A r \in RowsWithId("aks-002") : SomePoolUnzoned => r.broken
        /\ \A r \in RowsWithId("aks-003") :
              NonFreeTier =>
                  r.detail = (IF EveryPoolZoned THEN Str_9995 ELSE Str_999)

C5_Witness ==
    /\ input.target.kind = "aks"
    /\ NonFreeTier
    /\ \E i \in 1..Len(Pools) :
          /\ Pools[i].AvailabilityZones # Nil
          /\ Len(Deref(Pools[i].AvailabilityZones)) = 1
    /\ \E r \in RowsWithId("aks-003") : r.detail = Str_999
    /\ \E r \in RowsWithId("aks-002") : r.broken

\* C6 as the specification states it: the SLA rule of an Event Hub namespace
\* returns "99.95%" when the SKU name contains "Basic" and "99.99%" for any
\* other SKU name, and is never broken.
C6_BasicOnly ==
    \A r \in RowsWithId("evh-003") :
        /\ ~r.broken
        /\ r.detail = (IF Contains(input.target.SKUName, Str_Basic)
                       THEN Str_9995 ELSE Str_9999)

\* C6, amended: the SLA rule of an Event Hub namespace returns "99.95%" when
\* the SKU name contains "Basic" or "Standard" and "99.99%" for any other SKU
\* name, and is never broken.
C6_BasicOrStandard ==
    \A r \in RowsWithId("evh-003") :
        /\ ~r.broken
        /\ input.target.SKUName \in {Str_Basic, Sku_BasicV2, Str_Standard}
              => r.detail = Str_9995
        /\ input.target.SKUName \notin {Str_Basic, Sku_BasicV2, Str_Standard}
              => r.detail = Str_9999

C6_Witness ==
    /\ input.target.kind = "evh"
    /\ input.target.SKUName = Str_Standard
    /\ \E r \in RowsWithId("evh-003") : r.detail = Str_9995

\* C7: every rule predicate returns a (broken, detail) pair on every resource
\* of its type, whatever optional field is unset and whatever the diagnostics
\* lookup reports: no evaluation stops the process.
C7_PredicatesNeverStop == evaluated.outcome = "ok"

AllRules == AksRules \o EvhRules \o DbwRules

\* C10: no two rules of the Event Hub, Databricks and managed-cluster tables
\* carry the same id, whatever their map keys, so the rows of one evaluation
\* carry pairwise different ids.
C10_RuleIdsUnique ==
    /\ \A i, j \in 1..Len(AllRules) : i # j => AllRules[i].id # AllRules[j].id
    /\ \A i, j \in 1..Len(evaluated.rows) :
          i # j => evaluated.rows[i].ruleId # evaluated.rows[j].ruleId

C10_Witness ==
    /\ evaluated.op = "table"
    /\ evaluated.outcome = "ok"
    /\ input.target.kind = "aks"
    /\ Len(evaluated.rows) = Len(AksRules)
    /\ evaluated.rows[1].ruleId # "aks-001"

(***************************************************************************)
(* Claims about the run (specification Spec).                              *)
(***************************************************************************)
TypeOf(scanner) == Pages(scanner)[1][1].Type

RECURSIVE Concat(_)
Concat(pages) == IF pages = <<>> THEN <<>> ELSE Head(pages) \o Concat(Tail(pages))

\* the names of the resources a scanner's listing holds, in listing order
ListedNames(scanner) ==
    LET rs == Concat(Pages(scanner)) IN [i \in 1..Len(rs) |-> rs[i].Name]

ReportedOf(rg, scanner) ==
    SelectSeq(results, LAMBDA r : r.ResourceGroup = rg /\ r.Type = TypeOf(scanner))

SkippedFault(t) == t.fault # "none" /\ ShouldSkipError(t.fault)

RealFault(t) == t.fault # "none" /\ ~ShouldSkipError(t.fault)

C3_ReportHoldsTheRowsOfB ==
    \A rg \in ResourceGroups : \A a, b \in Scanners :
        (/\ a # b
         /\ SkippedFault(task[<<rg, a>>])
         /\ task[<<rg, b>>].pc = "done")
        => /\ ReportedOf(rg, a) = <<>>
           /\ [i \in 1..Len(ReportedOf(rg, b)) |-> ReportedOf(rg, b)[i].ServiceName]
                 = ListedNames(b)
           /\ \A i \in 1..Len(ReportedOf(rg, b)) :
                 Len(ReportedOf(rg, b)[i].Recommendations) = Len(Rules(b))
           /\ phase \in {"Scanning", "Aggregating", "Done", "Exited"}

C3_SkipKeepsTheRunGoing ==
    (\E u \in Units : ~SkippedFault(task[u]) /\ SkippedFault(task'[u]))
        => (phase' = phase /\ results' = results)

\* C3: when the listing of resource type A in a resource group fails with a
\* skippable error and the scan of type B in the group succeeds, the report
\* holds a result for every resource of B and none for A, and the failure of A
\* neither aborts the run nor ends the process.
C3_PartialFailure == []C3_ReportHoldsTheRowsOfB /\ [][C3_SkipKeepsTheRunGoing]_vars

C3_Witness ==
    /\ phase = "Done"
    /\ task[<<"rg1", "evh">>].pc = "skipped"
    /\ task[<<"rg1", "evh">>].fetched = 1
    /\ task[<<"rg1", "dbw">>].pc = "done"
    /\ Len(results) = 1
    /\ results[1].Type = TypeOf("dbw")

\* C4: a unit of work that meets an error that is not skippable is marked
\* failed with the error recorded against it, and the process keeps running.
C4_FaultIsRecordedAndTheRunGoesOn ==
    /\ \A u \in Units :
          RealFault(task[u]) => (task[u].pc = "failed" /\ <<u, task[u].fault>> \in recorded)
    /\ RealFault(advisor) => phase # "Exited"

\* C8: what a unit of work returns when its listing was skipped differs from
\* what it returns when its listing succeeded and held nothing.
C8_SkipIsObservable ==
    (advisor.pc = "done" /\ SkippedFault(advisor))
        => advisor.results # AdvisorAfterList(AdvisorResults(Config, <<>>), "none").results

FairSpec == Init /\ [][Next]_vars /\ WF_vars(Next)

PhaseOrder ==
    {<<"Idle", "BuildContext">>, <<"BuildContext", "Scanning">>,
     <<"BuildContext", "Aborted">>, <<"Scanning", "Aggregating">>,
     <<"Aggregating", "Done">>, <<"Done", "Idle">>}

C11_PhaseStep ==
    /\ phase' # phase => <<phase, phase'>> \in PhaseOrder
    /\ (phase = "Scanning" /\ phase' = "Aggregating")
          => \A u \in Units : Complete(task[u])

C11_NoScanBeforeContext ==
    (\E u \in Units : task[u].pc # "pending")
        => /\ phase \notin {"Idle", "BuildContext", "Aborted"}
           /\ scanContext = [DiagnosticsSettings |-> BuildIndex(SettingIds)]

C11_RunEnds == phase \in {"Done", "Aborted"}

\* C11: the phases follow one another only as Idle, BuildContext, Scanning,
\* Aggregating, Done (a new invocation starts at Idle again), with Aborted
\* entered only from BuildContext; no task starts before the context is built;
\* Aggregating is entered only when every task has completed; and under fair
\* scheduling the run eventually is Done or Aborted.
C11_PhasesInOrderAndRunEnds ==
    /\ [][C11_PhaseStep]_vars
    /\ []C11_NoScanBeforeContext
    /\ <>C11_RunEnds

\* the rows the scan of unit u owes the report: one for every listed resource
\* and every rule of its table
RowsOwed(u) ==
    LET rs == Concat(Pages(u[2]))
        ds == [index |-> scanContext.DiagnosticsSettings, err |-> FALSE]
    IN  {[SubscriptionID |-> Config.SubscriptionID, ResourceGroup |-> u[1],
          ServiceName |-> rs[i].Name, Type |-> rs[i].Type,
          Location |-> rs[i].Location,
          ruleId |-> Rules(u[2])[k].id,
          broken |-> EvaluateRecommendation(u[2], Rules(u[2])[k], rs[i],
                                            scanContext, ds).broken,
          detail |-> EvaluateRecommendation(u[2], Rules(u[2])[k], rs[i],
                                            scanContext, ds).detail] :
            i \in 1..Len(rs), k \in 1..Len(Rules(u[2]))}

RowsOwedBySucceeded ==
    UNION {RowsOwed(u) : u \in {v \in Units : task[v].pc = "done"}}

IsPrefix(a, b) == Len(a) <= Len(b) /\ SubSeq(b, 1, Len(a)) = a

C12_ExactlyTheRowsOfTheSucceeded ==
    RowBag(results) = [r \in RowsOwedBySucceeded |-> 1]

C12_AppendOnly ==
    (phase = "Scanning" /\ phase' = "Scanning") => IsPrefix(results, results')

BuiltContext == [DiagnosticsSettings |-> BuildIndex(SettingIds)]

C13_CompleteBeforeScanning ==
    phase \in {"Scanning", "Aggregating", "Done", "Exited"} => scanContext = BuiltContext

C13_ScanningWritesNothing ==
    phase = "Scanning" => scanContext' = scanContext

\* C13: the ScanContext with its diagnostics-settings index is complete when
\* Scanning begins, and no step of Scanning (no Scan, no rule predicate)
\* changes it: at the end of Scanning it is what it was at the start.
C13_ContextIsReadOnly ==
    []C13_CompleteBeforeScanning /\ [][C13_ScanningWritesNothing]_vars

C13_Witness ==
    /\ phase = "Aggregating"
    /\ \A u \in Units : task[u].pc = "done"
    /\ scanContext = BuiltContext
    /\ \E i \in 1..Len(results) : \E k \in 1..Len(results[i].Recommendations) :
          /\ results[i].Recommendations[k].ruleId = "dbw-001"
          /\ ~results[i].Recommendations[k].broken

C14_NoFurtherPage ==
    cancelled =>
        /\ \A u \in Units : task'[u].fetched <= task[u].fetched
        /\ advisor'.fetched <= advisor.fetched

C14_InFlightScanReturnsCancellation ==
    cancelled =>
        \A u \in Units :
            (~Complete(task[u]) /\ Complete(task'[u])) => task'[u].fault = Cancelled

C14_CancellationIsNotSkipped ==
    /\ \A u \in Units :
          task[u].fault = Cancelled
              => (task[u].pc = "failed" /\ <<u, Cancelled>> \in recorded)
    /\ advisor.fault = Cancelled => advisor.pc # "done"

\* C14: once the run's context is cancelled no further page is fetched, every
\* Scan that is still in flight returns the cancellation error, and that error
\* is a fault of the run: it is never skipped and turned into an empty result.
C14_CancellationStopsTheScans ==
    /\ [][C14_NoFurtherPage /\ C14_InFlightScanReturnsCancellation]_vars
    /\ []C14_CancellationIsNotSkipped

(***************************************************************************)
(* Claims about one call of Scan (specification SpecScan).                 *)
(***************************************************************************)
\* the resources of the call's pages, page after page
InPageOrder == Concat(call.pages)

ScanSucceeded ==
    /\ returned.op \in {"Scan", "NsgScan"}
    /\ returned.outcome = "ok"
    /\ returned.err = "none"

\* the group a resource lies in, read off the way its id was made
GroupOfListed(w) == CHOOSE g \in Groups : w.ID = ResourceId(g, w.Name)

SomePageFails == call.failAt # 0

\* C16: when the request of any page fails, the first or a later one, the
\* listing returns the error and no resource, and Scan returns that error, no
\* result, and has handed no resource to the engine; no call returns results
\* together with an error, and a call that returns results returns them for
\* all the pages, never for the first ones only.
C16_ListingIsAllOrNothing ==
    returned.op # "none" =>
        /\ SomePageFails =>
              /\ returned.listed.resources = <<>>
              /\ returned.listed.err = call.err
              /\ returned.outcome = "ok"
              /\ returned.err = call.err
              /\ returned.results = <<>>
              /\ returned.evaluated = 0
        /\ ~(returned.err # "none" /\ returned.results # <<>>)
        /\ (returned.outcome = "ok" /\ returned.err = "none")
              => Len(returned.results) = Len(InPageOrder)

C16_Witness ==
    /\ returned.op = "Scan"
    /\ call.failAt = 2
    /\ Len(call.pages[1]) = 2
    /\ returned.err = "PermissionError"
    /\ returned.results = <<>>

(***************************************************************************)
(* The public-IP rule of the Databricks table (specification SpecEval).    *)
(***************************************************************************)
PublicIPDisabled ==
    /\ input.target.Parameters # Nil
    /\ Deref(input.target.Parameters).EnableNoPublicIP # Nil
    /\ Deref(Deref(input.target.Parameters).EnableNoPublicIP).Value = Ptr(TRUE)

\* C17: rule dbw-007 is broken exactly for the workspaces whose public IP is
\* not disabled: EnableNoPublicIP absent or its value not true gives
\* broken=true, EnableNoPublicIP set to true gives broken=false.
C17_BrokenUnlessPublicIPDisabled ==
    input.target.kind = "dbw" =>
        \A r \in RowsWithId("dbw-007") : r.broken = ~PublicIPDisabled
=============================================================================
